---- MODULE Spec2Model ----
(***************************************************************************)
(* Model of src/ansible/inventory/hosting.py: the dynamic Ansible          *)
(* inventory built from the hosting platform API and static.ini.           *)
(*                                                                         *)
(* Strings are TLA+ strings.  Where the code takes a string apart or puts  *)
(* one together (the URL, "?" in path, part.split("=", 1), the f-strings   *)
(* of the group names) the string is a sequence of pieces and Text gives   *)
(* the string the pieces spell.  A dict is a function whose DOMAIN is its  *)
(* key set, so that dict.get(key, default) is Get.                         *)
(*                                                                         *)
(* The inventory dict is split in two variables: hostvars is               *)
(* inventory["_meta"]["hostvars"] and inventory maps every other key (a    *)
(* group name) to its "hosts" list.  No role, region, cluster or static    *)
(* group of the input domains is named "_meta".                            *)
(***************************************************************************)
EXTENDS Integers, Sequences, FiniteSets, TLC

VARIABLES
    st,             \* api_get's frame: path, url, items, pc, ret, err
    log,            \* history: the first MaxPages (url, response) pairs of the call
    last,           \* history: the last response received by the call
    nreq,           \* history: number of requests issued, counted up to MaxPages + 1
    pc,             \* position of main / build_inventory
    argv,           \* sys.argv[1:]
    output,         \* what main printed
    regions,        \* regions still to visit
    clusters,       \* clusters of the current region still to visit
    nodes,          \* nodes of the current cluster still to visit
    region_id,
    cluster_id,
    inventory,      \* group name -> hosts list
    hostvars,       \* inventory["_meta"]["hostvars"]
    api_hostnames,
    static_file,    \* history: the static.ini content that was read
    calls,          \* history: the api_get calls of the walk
    walked          \* history: the node entries that passed the hostname/ip test

vars == <<st, log, last, nreq, pc, argv, output, regions, clusters, nodes,
          region_id, cluster_id, inventory, hostvars, api_hostnames,
          static_file, calls, walked>>

fetchVars == <<st, log, last, nreq>>
buildVars == <<pc, argv, output, regions, clusters, nodes, region_id, cluster_id,
               inventory, hostvars, api_hostnames, static_file, calls, walked>>

-----------------------------------------------------------------------------
(* Bounds of the model *)

\* pages of one api_get call the history keeps (FetchSpec)
MaxPages == 3
\* entries (regions, clusters and nodes together) the API returns over one
\* build at most
MaxEntries == 4
\* lines of static.ini at most (MergeSpec)
MaxLines == 4

-----------------------------------------------------------------------------
(* Generic helpers *)

\* dict.get(key, default)
Get(d, k, def) == IF k \in DOMAIN d THEN d[k] ELSE def

Range(s) == {s[i] : i \in 1..Len(s)}

SeqsUpTo(S, n) == UNION {[1..k -> S] : k \in 0..n}

RECURSIVE Concat(_)
Concat(ss) == IF ss = <<>> THEN <<>> ELSE Head(ss) \o Concat(Tail(ss))

\* x in list
In(x, list) == \E i \in 1..Len(list) : list[i] = x

-----------------------------------------------------------------------------
(* Configuration: the defaults of the environment variables *)

API_URL == "http://10.10.10.2:8090/api/v1"
API_KEY == ""

-----------------------------------------------------------------------------
(* api_get(path): the pagination loop                                      *)
(*                                                                         *)
(* A path and a URL are sequences of pieces; "?" is a piece of its own.    *)
(* A response is [ok |-> FALSE] (urlopen raised URLError, HTTPError or     *)
(* OSError) or [ok |-> TRUE, data |-> the decoded JSON object].            *)

\* "?" in path
HasQuery(path) == In("?", path)

\* urllib.request.Request(url) plus the X-API-Key header when API_KEY is set
Request(url) ==
    [url |-> url,
     headers |-> IF API_KEY # "" THEN [X_API_Key |-> API_KEY] ELSE <<>>]

\* the frame on entry to the loop
ApiGetInit(path) ==
    [path |-> path, url |-> <<API_URL>> \o path, items |-> <<>>,
     pc |-> "loop", ret |-> <<>>, err |-> FALSE]

\* a mutant of OnError: the pages fetched so far are returned
OnErrorPartial(f) == [f EXCEPT !.pc = "done", !.ret = f.items, !.err = TRUE]

\* except (URLError, HTTPError, OSError): return []
OnError(f) == [f EXCEPT !.pc = "done", !.ret = <<>>, !.err = TRUE]

\* a mutant of Extend: the page replaces what was accumulated
ExtendOverwrite(items, page_items) ==
    IF page_items # <<>> THEN page_items ELSE items

\* if page_items: items.extend(page_items)
Extend(items, page_items) ==
    IF page_items # <<>> THEN items \o page_items ELSE items

\* separator = "&" if "?" in path else "?"; url = f"{API_URL}{path}{separator}cursor={cursor}"
NextUrl(f, cursor) ==
    <<API_URL>> \o f.path
        \o <<(IF HasQuery(f.path) THEN "&" ELSE "?"), "cursor=", cursor>>

\* return items
Return(f, items) == [f EXCEPT !.pc = "done", !.items = items, !.ret = items]

\* one iteration of the while loop, on the response to Request(f.url)
ApiGetStep(f, resp) ==
    IF ~resp.ok THEN OnError(f)
    ELSE LET data == resp.data
             items == Extend(f.items, Get(data, "items", <<>>))
         IN  IF ~Get(data, "has_more", FALSE) THEN Return(f, items)
             ELSE LET cursor == Get(data, "next_cursor", "")
                  IN  IF cursor = "" THEN Return(f, items)
                      ELSE [f EXCEPT !.items = items, !.url = NextUrl(f, cursor)]

\* the loop run to its return on the responses the server gives in turn
RECURSIVE ApiGetLoop(_, _)
ApiGetLoop(f, resps) ==
    IF f.pc = "done" \/ resps = <<>> THEN f
    ELSE ApiGetLoop(ApiGetStep(f, Head(resps)), Tail(resps))

api_get(path, resps) == ApiGetLoop(ApiGetInit(path), resps)

-----------------------------------------------------------------------------
(* The server's answers *)

Field(k, opt) == IF opt.present THEN (k :> opt.v) ELSE <<>>

Absent(v) == [present |-> FALSE, v |-> v]
Present(v) == [present |-> TRUE, v |-> v]

\* a JSON object with the keys that are present
Page(items, has_more, next_cursor) ==
    Field("items", items) @@ Field("has_more", has_more)
        @@ Field("next_cursor", next_cursor)

Ok(data) == [ok |-> TRUE, data |-> data]
Error == [ok |-> FALSE]

\* FetchSpec: the items, cursors and paths of the pages
FetchItemLists == {<<>>, <<[id |-> "r1"]>>, <<[id |-> "r2"], [id |-> "r1"]>>}
Cursors == {"a", "b"}
FetchPaths == {<<"/regions">>, <<"/regions", "?", "limit=1">>}

FetchPages ==
    {Page(i, h, c) :
        i \in {Absent(<<>>)} \cup {Present(l) : l \in FetchItemLists},
        h \in {Absent(FALSE), Present(FALSE), Present(TRUE)},
        c \in {Absent(""), Present("")} \cup {Present(x) : x \in Cursors}}

-----------------------------------------------------------------------------
(* FetchSpec: one call of api_get, one request per step *)

BuildIdle ==
    /\ pc = "idle"
    /\ argv = <<>>
    /\ output = <<>>
    /\ regions = <<>>
    /\ clusters = <<>>
    /\ nodes = <<>>
    /\ region_id = ""
    /\ cluster_id = ""
    /\ inventory = <<>>
    /\ hostvars = <<>>
    /\ api_hostnames = {}
    /\ static_file = <<>>
    /\ calls = <<>>
    /\ walked = <<>>

FetchInit ==
    /\ \E path \in FetchPaths : st = ApiGetInit(path)
    /\ log = <<>>
    /\ last = Error
    /\ nreq = 0
    /\ BuildIdle

\* the history of one request and its response
Record(resp) ==
    /\ log' = IF Len(log) < MaxPages
              THEN Append(log, [req |-> Request(st.url), resp |-> resp])
              ELSE log
    /\ last' = resp
    /\ nreq' = IF nreq <= MaxPages THEN nreq + 1 ELSE nreq

\* urlopen returns and json.loads gives data; past MaxPages requests the model
\* follows a call through pages without items only, so that items stays bounded
FetchPage ==
    /\ st.pc = "loop"
    /\ \E data \in FetchPages :
        /\ nreq < MaxPages \/ Get(data, "items", <<>>) = <<>>
        /\ st' = ApiGetStep(st, Ok(data))
        /\ Record(Ok(data))
    /\ UNCHANGED buildVars

\* urlopen raises
FetchFails ==
    /\ st.pc = "loop"
    /\ st' = ApiGetStep(st, Error)
    /\ Record(Error)
    /\ UNCHANGED buildVars

FetchNext == FetchPage \/ FetchFails

FetchSpec == FetchInit /\ [][FetchNext]_vars

\* the server answers every request: urlopen returns or raises within its timeout
FetchFairSpec == FetchSpec /\ WF_vars(FetchNext)

-----------------------------------------------------------------------------
(* Claims about api_get (FetchSpec) *)

\* the page ends the pagination: has_more false (or missing), or next_cursor
\* empty (or missing)
LastPage(data) ==
    \/ ~Get(data, "has_more", FALSE)
    \/ Get(data, "next_cursor", "") = ""

\* the URL that asks for the page after data
UrlAfter(path, data) ==
    <<API_URL>> \o path
        \o <<(IF "?" \in Range(path) THEN "&" ELSE "?"), "cursor=",
             Get(data, "next_cursor", "")>>

AllOk == \A i \in 1..Len(log) : log[i].resp.ok

\* C1: when api_get has returned and no request failed, the result is the
\* concatenation of the items of the pages fetched, in page order; the first
\* request asks the path itself and each later one the cursor the page before
\* it gave (no page is skipped); the page it stopped on is the only fetched
\* page that ends the pagination, and once returned no request is issued.
C1_Concatenation ==
    (st.pc = "done" /\ nreq <= MaxPages /\ AllOk) =>
        /\ st.ret = Concat([i \in 1..Len(log) |->
                                Get(log[i].resp.data, "items", <<>>)])
        /\ Len(log) = nreq /\ nreq >= 1
        /\ log[1].req.url = <<API_URL>> \o st.path
        /\ \A i \in 2..Len(log) :
                log[i].req.url = UrlAfter(st.path, log[i - 1].resp.data)
        /\ LastPage(log[Len(log)].resp.data)
        /\ \A i \in 1..(Len(log) - 1) : ~LastPage(log[i].resp.data)
        /\ ~ENABLED FetchNext

\* a call that fetched three pages, the first and the last with items
C1_Witness ==
    /\ st.pc = "done" /\ nreq = 3 /\ AllOk
    /\ Get(log[1].resp.data, "items", <<>>) # <<>>
    /\ Get(log[2].resp.data, "items", <<>>) = <<>>
    /\ Get(log[3].resp.data, "items", <<>>) # <<>>
    /\ HasQuery(st.path)

\* C2: once a request has failed, api_get has returned, what it returns is the
\* empty list whatever was accumulated, and no further request is issued.
C2_ErrorGivesEmpty ==
    (nreq >= 1 /\ ~last.ok) =>
        /\ st.pc = "done"
        /\ st.ret = <<>>
        /\ ~ENABLED FetchNext

\* the third request failed after two pages with items
C2_Witness ==
    /\ nreq = 3 /\ ~last.ok
    /\ log[1].resp.ok /\ log[2].resp.ok
    /\ Len(st.items) >= 2

\* C10: every call of api_get terminates, whatever the server answers.
C10_Terminates == <>(st.pc = "done")

-----------------------------------------------------------------------------
(* Strings put together and taken apart *)

\* the string a sequence of pieces spells
Text(p) ==
    IF p = <<>> THEN ""
    ELSE IF Len(p) = 1 THEN p[1]
    ELSE CASE p = <<"region_", "r1">> -> "region_r1"
           [] p = <<"region_", "r2">> -> "region_r2"
           [] p = <<"cluster_", "c1">> -> "cluster_c1"
           [] p = <<"cluster_", "c2">> -> "cluster_c2"
           [] p = <<"a", "=", "b">> -> "a=b"

\* Map API role names to Ansible group names
ROLE_MAP ==
    [web |-> "web", database |-> "db", dns |-> "dns", valkey |-> "valkey",
     email |-> "email", storage |-> "storage", s3 |-> "storage",
     dbadmin |-> "dbadmin", lb |-> "lb"]

-----------------------------------------------------------------------------
(* get_static_inventory(): static.ini                                      *)
(*                                                                         *)
(* The file is [exists |-> FALSE] or its lines; a line, stripped, is the   *)
(* sequence of its whitespace-separated tokens and a token a sequence of   *)
(* pieces, where "[", "]", "#", ";" and "=" are pieces of their own.  A    *)
(* group header is a single token.                                         *)

NoFile == [exists |-> FALSE, lines |-> <<>>]
File(lines) == [exists |-> TRUE, lines |-> lines]

\* not line or line.startswith("#") or line.startswith(";")
IsBlankOrComment(line) == line = <<>> \/ line[1][1] \in {"#", ";"}

\* line.startswith("[") and line.endswith("]")
IsHeader(line) ==
    /\ line # <<>>
    /\ line[1][1] = "["
    /\ line[Len(line)][Len(line[Len(line)])] = "]"

\* line[1:-1]
HeaderName(line) == Text(SubSeq(line[1], 2, Len(line[1]) - 1))

\* the index of the first "=" of a token, 0 when it has none
FirstEq(part) ==
    IF "=" \in Range(part)
    THEN CHOOSE i \in 1..Len(part) :
            part[i] = "=" /\ \A j \in 1..(i - 1) : part[j] # "="
    ELSE 0

\* key, val = part.split("=", 1)
SplitKeyVal(part) ==
    [key |-> Text(SubSeq(part, 1, FirstEq(part) - 1)),
     val |-> Text(SubSeq(part, FirstEq(part) + 1, Len(part)))]

\* d[k] = v
Put(d, k, v) == IF k \in DOMAIN d THEN [d EXCEPT ![k] = v] ELSE d @@ (k :> v)

\* for part in parts[1:]: if "=" in part: ... hostvars[hostname][key] = val
RECURSIVE ParseVars(_, _, _)
ParseVars(hv, hostname, parts) ==
    IF parts = <<>> THEN hv
    ELSE LET part == Head(parts)
             hv1 == IF FirstEq(part) # 0
                    THEN LET kv == SplitKeyVal(part)
                             h0 == IF hostname \in DOMAIN hv THEN hv
                                   ELSE hv @@ (hostname :> <<>>)
                         IN  [h0 EXCEPT ![hostname] = Put(@, kv.key, kv.val)]
                    ELSE hv
         IN  ParseVars(hv1, hostname, Tail(parts))

\* the parser before the first line: groups is an ordered dict
ParseInit ==
    [order |-> <<>>, groups |-> <<>>, hostvars |-> <<>>,
     current_group |-> [none |-> TRUE, name |-> ""]]

\* a mutant of ParseLine: a header seen again empties its group
ParseLineResetGroup(p, line) ==
    IF IsBlankOrComment(line) THEN p
    ELSE IF IsHeader(line)
    THEN LET g == HeaderName(line)
         IN  [p EXCEPT !.current_group = [none |-> FALSE, name |-> g],
                       !.order = IF g \in DOMAIN p.groups THEN @ ELSE Append(@, g),
                       !.groups = Put(@, g, <<>>)]
    ELSE IF ~p.current_group.none /\ p.current_group.name # ""
    THEN LET g == p.current_group.name
             hostname == Text(line[1])
         IN  [p EXCEPT !.groups[g] = Append(@, hostname),
                       !.hostvars = ParseVars(@, hostname, Tail(line))]
    ELSE p

\* the body of "for line in f"
ParseLine(p, line) ==
    IF IsBlankOrComment(line) THEN p
    ELSE IF IsHeader(line)
    THEN LET g == HeaderName(line)
         IN  [p EXCEPT !.current_group = [none |-> FALSE, name |-> g],
                       !.order = IF g \in DOMAIN p.groups THEN @ ELSE Append(@, g),
                       !.groups = IF g \in DOMAIN @ THEN @ ELSE @ @@ (g :> <<>>)]
    ELSE IF ~p.current_group.none /\ p.current_group.name # ""
    THEN LET g == p.current_group.name
             hostname == Text(line[1])
         IN  [p EXCEPT !.groups[g] = Append(@, hostname),
                       !.hostvars = ParseVars(@, hostname, Tail(line))]
    ELSE p

RECURSIVE ParseLines(_, _)
ParseLines(p, lines) ==
    IF lines = <<>> THEN p ELSE ParseLines(ParseLine(p, Head(lines)), Tail(lines))

\* returns (groups, hostvars); ({}, {}) when static.ini does not exist
get_static_inventory(file) ==
    IF ~file.exists THEN ParseInit ELSE ParseLines(ParseInit, file.lines)

-----------------------------------------------------------------------------
(* build_inventory(): the walk over regions, clusters and nodes *)

\* if group not in inventory: inventory[group] = {"hosts": []}
EnsureGroup(inv, group) ==
    IF group \in DOMAIN inv THEN inv ELSE inv @@ (group :> <<>>)

\* inventory[group]["hosts"].append(hostname), the group created on first use
AppendHost(inv, group, hostname) ==
    [EnsureGroup(inv, group) EXCEPT ![group] = Append(@, hostname)]

\* if hostname not in inventory[group]["hosts"]: append, the group created on
\* first use
AddHostOnce(inv, group, hostname) ==
    LET i == EnsureGroup(inv, group)
    IN  IF In(hostname, i[group]) THEN i
        ELSE [i EXCEPT ![group] = Append(@, hostname)]

\* a mutant of RoleGroup: the role names the group
RoleGroupRaw(role) == role

\* group = ROLE_MAP.get(role, role)
RoleGroup(role) == Get(ROLE_MAP, role, role)

\* for role in node.get("roles", []): ...
RECURSIVE AddRoles(_, _, _)
AddRoles(inv, roles, hostname) ==
    IF roles = <<>> THEN inv
    ELSE AddRoles(AddHostOnce(inv, RoleGroup(Head(roles)), hostname),
                  Tail(roles), hostname)

\* a mutant of Discarded: only the hostname is tested
DiscardedNoHostname(hostname, ip) == hostname = ""

\* if not hostname or not ip: continue
Discarded(hostname, ip) == hostname = "" \/ ip = ""

\* the shard_assignments list of a node
ShardAssignments(node) ==
    LET shards == Get(node, "shards", <<>>)
    IN  [i \in 1..Len(shards) |->
            [shard_id |-> Get(shards[i], "shard_id", ""),
             shard_role |-> Get(shards[i], "shard_role", ""),
             shard_index |-> Get(shards[i], "shard_index", 0)]]

\* inventory["_meta"]["hostvars"][hostname] = {...}
NodeVars(node, rid, cid) ==
    [ansible_host |-> Get(node, "ip_address", ""),
     node_id |-> Get(node, "id", ""),
     cluster_id |-> cid,
     region_id |-> rid,
     node_roles |-> Get(node, "roles", <<>>),
     node_status |-> Get(node, "status", ""),
     shard_assignments |-> ShardAssignments(node)]

region_group(rid) == Text(<<"region_", rid>>)
cluster_group(cid) == Text(<<"cluster_", cid>>)

\* the groups of a node that is kept
NodeGroups(inv, node, rid, cid) ==
    LET hostname == Get(node, "hostname", "")
        inv1 == AppendHost(inv, region_group(rid), hostname)
        inv2 == AppendHost(inv1, cluster_group(cid), hostname)
    IN  AddRoles(inv2, Get(node, "roles", <<>>), hostname)

\* a mutant of NextPc: an empty list of children ends the walk
NextPcBreak(rs, cs, ns) ==
    IF ns # <<>> THEN "node" ELSE "static"

\* where the three nested for loops stand, given what is left of each list
NextPc(rs, cs, ns) ==
    IF ns # <<>> THEN "node"
    ELSE IF cs # <<>> THEN "nodes"
    ELSE IF rs # <<>> THEN "clusters"
    ELSE "static"

-----------------------------------------------------------------------------
(* build_inventory(): the merge of static.ini *)

\* a mutant of ApiWins: static hosts are merged whatever the API returned
ApiNeverWins(hostname, api) == FALSE

\* if hostname in api_hostnames: continue
ApiWins(hostname, api) == hostname \in api

\* the body of "for hostname in hosts"; b is [inventory, hostvars]
MergeHost(b, api, group, hostname, static_hostvars) ==
    IF ApiWins(hostname, api) THEN b
    ELSE [inventory |-> AddHostOnce(b.inventory, group, hostname),
          hostvars |-> IF hostname \in DOMAIN static_hostvars
                       THEN Put(b.hostvars, hostname, static_hostvars[hostname])
                       ELSE b.hostvars]

RECURSIVE MergeHosts(_, _, _, _, _)
MergeHosts(b, api, group, hosts, static_hostvars) ==
    IF hosts = <<>> THEN b
    ELSE MergeHosts(MergeHost(b, api, group, Head(hosts), static_hostvars),
                    api, group, Tail(hosts), static_hostvars)

\* for group, hosts in static_groups.items(): ...
RECURSIVE MergeGroups(_, _, _, _)
MergeGroups(b, api, order, parsed) ==
    IF order = <<>> THEN b
    ELSE MergeGroups(MergeHosts(b, api, Head(order), parsed.groups[Head(order)],
                                parsed.hostvars),
                     api, Tail(order), parsed)

\* lines 177-187
MergeStaticInventory(inv, hv, api, file) ==
    LET parsed == get_static_inventory(file)
    IN  MergeGroups([inventory |-> inv, hostvars |-> hv], api, parsed.order, parsed)

\* the document: "_meta" and the groups
Document(inv, hv) ==
    ("_meta" :> [hostvars |-> hv]) @@ [g \in DOMAIN inv |-> [hosts |-> inv[g]]]

Printed(doc) == [printed |-> TRUE, doc |-> doc]

-----------------------------------------------------------------------------
(* The inputs of a build *)

RegionIds == {"r1", "r2"}
ClusterIds == {"c1", "c2"}

\* node entries: two with the same hostname and different addresses, one
\* without status and shards, one with an empty hostname, one without address
NodeDb ==
    [id |-> "n1", hostname |-> "h1", ip_address |-> "10.0.0.1",
     roles |-> <<"database", "s3", "storage">>, status |-> "active",
     shards |-> <<[shard_id |-> "s1", shard_role |-> "primary"]>>]
NodeCustom ==
    [id |-> "n2", hostname |-> "h1", ip_address |-> "10.0.0.2",
     roles |-> <<"custom", "region_r1">>, status |-> "active", shards |-> <<>>]
NodeWeb ==
    [id |-> "n3", hostname |-> "web1", ip_address |-> "10.0.0.1",
     roles |-> <<"web">>]
NodeNoName ==
    [id |-> "n4", hostname |-> "", ip_address |-> "10.0.0.4",
     roles |-> <<"web">>, status |-> "active", shards |-> <<>>]
NodeNoIp ==
    [id |-> "n5", hostname |-> "cp1", roles |-> <<"dns">>, status |-> "down"]

NodeSet == {NodeDb, NodeCustom, NodeWeb, NodeNoName, NodeNoIp}

\* the ways the server hands out a list: in one page; in two pages cut at k,
\* the second with has_more false or with has_more true and an empty cursor;
\* with a request that fails, on the first page or on the second
AnswerShapes == {"one", "two", "no_cursor", "error", "error_after"}

Answer(list, shape, k) ==
    LET one == Ok(Page(Present(list), Present(FALSE), Absent("")))
        first == Ok(Page(Present(SubSeq(list, 1, k)), Present(TRUE), Present("a")))
        rest == Ok(Page(Present(SubSeq(list, k + 1, Len(list))),
                        Absent(FALSE), Absent("")))
        restNoCursor == Ok(Page(Present(SubSeq(list, k + 1, Len(list))),
                                Present(TRUE), Present("")))
    IN  CASE shape = "one" -> <<one>>
          [] shape = "two" -> <<first, rest>>
          [] shape = "no_cursor" -> <<first, restNoCursor>>
          [] shape = "error" -> <<Error>>
          [] shape = "error_after" -> <<first, Error>>

\* the shapes and cuts that differ for the list
Cuts(list, shape) ==
    IF shape \in {"one", "error"} THEN {0} ELSE 0..Len(list)

\* static.ini: the lines
LineControlplane == << <<"[", "controlplane", "]">> >>
LineWeb == << <<"[", "web", "]">> >>
LineNoName == << <<"[", "]">> >>
LineComment == << <<"#">>, <<"hosts">> >>
LineCp1 ==
    << <<"cp1">>, <<"ansible_host", "=", "10.0.0.5">>, <<"env", "=", "prod">> >>
LineCp1Dev ==
    << <<"cp1">>, <<"env", "=", "dev">>, <<"standby">>, <<"opt", "=", "a", "=", "b">> >>
LineH1 == << <<"h1">>, <<"ansible_host", "=", "10.9.9.9">> >>

LineSet ==
    {LineControlplane, LineWeb, LineNoName, LineComment, LineCp1, LineCp1Dev, LineH1}

Files(n) == {NoFile} \cup {File(l) : l \in SeqsUpTo(LineSet, n)}

\* Spec: static.ini is missing, or lists cp1 and h1 under controlplane
SmallFiles == {NoFile, File(<<LineControlplane, LineCp1, LineH1>>)}

\* sys.argv[1:]
ArgvSet ==
    {<<>>, <<"--list">>, <<"--host", "h1">>, <<"--host", "h1", "--list">>,
     <<"--list", "--host", "h1">>, <<"--host", "--list">>, <<"--host">>}

-----------------------------------------------------------------------------
(* main() and build_inventory(), one api_get call or one node per step *)

FetchIdle ==
    /\ st = [pc |-> "idle"]
    /\ log = <<>>
    /\ last = Error
    /\ nreq = 0

Init ==
    /\ FetchIdle
    /\ pc = "main"
    /\ argv = <<>>
    /\ output = [printed |-> FALSE, doc |-> <<>>]
    /\ regions = <<>>
    /\ clusters = <<>>
    /\ nodes = <<>>
    /\ region_id = ""
    /\ cluster_id = ""
    /\ inventory = <<>>
    /\ hostvars = <<>>
    /\ api_hostnames = {}
    /\ static_file = NoFile
    /\ calls = <<>>
    /\ walked = <<>>

\* the history of an api_get call
Call(kind, f) == [kind |-> kind, path |-> f.path, err |-> f.err, ret |-> f.ret]

\* the entries the calls have returned so far
RECURSIVE Returned(_)
Returned(cs) ==
    IF cs = <<>> THEN 0 ELSE Len(Head(cs).ret) + Returned(Tail(cs))

\* the lists the API may return
RegionLists == SeqsUpTo({[id |-> i] : i \in RegionIds}, MaxEntries)
ClusterLists == SeqsUpTo({[id |-> i] : i \in ClusterIds}, MaxEntries - 1)
NodeLists == SeqsUpTo(NodeSet, MaxEntries - 2)

\* the lists that keep the build within MaxEntries entries
Within(lists) == {l \in lists : Len(l) + Returned(calls) <= MaxEntries}

\* a mutant of Builds: --host is looked for first
BuildsHostFirst(a) == ~In("--host", a)

\* the if / elif / else of main: whether build_inventory() is called
Builds(a) ==
    IF In("--list", a) THEN TRUE
    ELSE IF In("--host", a) THEN FALSE
    ELSE TRUE

\* main: build_inventory() is entered, or {} is printed
Main(argvs) ==
    /\ pc = "main"
    /\ \E a \in argvs :
        /\ argv' = a
        /\ IF Builds(a) THEN pc' = "regions" /\ output' = output
           ELSE pc' = "exit" /\ output' = Printed(<<>>)
    /\ UNCHANGED <<regions, clusters, nodes, region_id, cluster_id, inventory,
                   hostvars, api_hostnames, static_file, calls, walked>>
    /\ UNCHANGED fetchVars

\* regions = api_get("/regions")
FetchRegions(lists) ==
    /\ pc = "regions"
    /\ \E list \in Within(lists) :
       \E shape \in AnswerShapes : \E k \in Cuts(list, shape) :
        LET f == api_get(<<"/regions">>, Answer(list, shape, k))
        IN  /\ f.pc = "done"
            /\ regions' = f.ret
            /\ calls' = Append(calls, Call("regions", f))
            /\ pc' = NextPc(f.ret, <<>>, <<>>)
    /\ UNCHANGED <<argv, output, clusters, nodes, region_id, cluster_id,
                   inventory, hostvars, api_hostnames, static_file, walked>>
    /\ UNCHANGED fetchVars

\* for region in regions: clusters = api_get(f"/regions/{region_id}/clusters")
FetchClusters(lists) ==
    /\ pc = "clusters"
    /\ LET rid == Head(regions)["id"]
       IN  \E list \in Within(lists) :
           \E shape \in AnswerShapes : \E k \in Cuts(list, shape) :
            LET f == api_get(<<"/regions/", rid, "/clusters">>,
                             Answer(list, shape, k))
            IN  /\ f.pc = "done"
                /\ region_id' = rid
                /\ regions' = Tail(regions)
                /\ clusters' = f.ret
                /\ calls' = Append(calls, Call("clusters", f))
                /\ pc' = NextPc(Tail(regions), f.ret, <<>>)
    /\ UNCHANGED <<argv, output, nodes, cluster_id, inventory, hostvars,
                   api_hostnames, static_file, walked>>
    /\ UNCHANGED fetchVars

\* for cluster in clusters: nodes = api_get(f"/clusters/{cluster_id}/nodes")
FetchNodes(lists) ==
    /\ pc = "nodes"
    /\ LET cid == Head(clusters)["id"]
       IN  \E list \in Within(lists) :
           \E shape \in AnswerShapes : \E k \in Cuts(list, shape) :
            LET f == api_get(<<"/clusters/", cid, "/nodes">>,
                             Answer(list, shape, k))
            IN  /\ f.pc = "done"
                /\ cluster_id' = cid
                /\ clusters' = Tail(clusters)
                /\ nodes' = f.ret
                /\ calls' = Append(calls, Call("nodes", f))
                /\ pc' = NextPc(regions, Tail(clusters), f.ret)
    /\ UNCHANGED <<argv, output, regions, region_id, inventory, hostvars,
                   api_hostnames, static_file, walked>>
    /\ UNCHANGED fetchVars

\* for node in nodes: a node without hostname or address is passed over
SkipNode ==
    /\ pc = "node"
    /\ LET node == Head(nodes)
       IN  Discarded(Get(node, "hostname", ""), Get(node, "ip_address", ""))
    /\ nodes' = Tail(nodes)
    /\ pc' = NextPc(regions, clusters, Tail(nodes))
    /\ UNCHANGED <<argv, output, regions, clusters, region_id, cluster_id,
                   inventory, hostvars, api_hostnames, static_file, calls, walked>>
    /\ UNCHANGED fetchVars

\* for node in nodes: lines 138-174
KeepNode ==
    /\ pc = "node"
    /\ LET node == Head(nodes)
           hostname == Get(node, "hostname", "")
       IN  /\ ~Discarded(hostname, Get(node, "ip_address", ""))
           /\ api_hostnames' = api_hostnames \cup {hostname}
           /\ hostvars' = Put(hostvars, hostname, NodeVars(node, region_id, cluster_id))
           /\ inventory' = NodeGroups(inventory, node, region_id, cluster_id)
           /\ walked' = Append(walked, [region |-> region_id, cluster |-> cluster_id,
                                        node |-> node])
    /\ nodes' = Tail(nodes)
    /\ pc' = NextPc(regions, clusters, Tail(nodes))
    /\ UNCHANGED <<argv, output, regions, clusters, region_id, cluster_id,
                   static_file, calls>>
    /\ UNCHANGED fetchVars

\* lines 177-189 of build_inventory, and main's print of what it returns
MergeStatic(files) ==
    /\ pc = "static"
    /\ \E file \in files :
        LET b == MergeStaticInventory(inventory, hostvars, api_hostnames, file)
        IN  /\ static_file' = file
            /\ inventory' = b.inventory
            /\ hostvars' = b.hostvars
            /\ output' = Printed(Document(b.inventory, b.hostvars))
    /\ pc' = "exit"
    /\ UNCHANGED <<argv, regions, clusters, nodes, region_id, cluster_id,
                   api_hostnames, calls, walked>>
    /\ UNCHANGED fetchVars

Next ==
    \/ Main({<<"--list">>})
    \/ FetchRegions(RegionLists)
    \/ FetchClusters(ClusterLists)
    \/ FetchNodes(NodeLists)
    \/ SkipNode
    \/ KeepNode
    \/ MergeStatic(SmallFiles)

Spec == Init /\ [][Next]_vars

\* the API of MergeSpec and MainSpec: at most one region with one cluster,
\* which holds h1, the node without address, or both
OneRegion == {<<>>, <<[id |-> "r1"]>>}
OneCluster == {<<[id |-> "c1"]>>}
FewNodes == {<<>>, <<NodeDb>>, <<NodeNoIp>>, <<NodeNoIp, NodeDb>>}

\* MergeSpec: static.ini of up to MaxLines lines
MergeNext ==
    \/ Main({<<"--list">>})
    \/ FetchRegions(OneRegion)
    \/ FetchClusters(OneCluster)
    \/ FetchNodes(FewNodes)
    \/ SkipNode
    \/ KeepNode
    \/ MergeStatic(Files(MaxLines))

MergeSpec == Init /\ [][MergeNext]_vars

\* MainSpec: every command line
MainNext ==
    \/ Main(ArgvSet)
    \/ FetchRegions(OneRegion)
    \/ FetchClusters(OneCluster)
    \/ FetchNodes(FewNodes)
    \/ SkipNode
    \/ KeepNode
    \/ MergeStatic(SmallFiles)

MainSpec == Init /\ [][MainNext]_vars

-----------------------------------------------------------------------------
(* What the claims about a build speak of *)

NodeHostname(node) == IF "hostname" \in DOMAIN node THEN node.hostname ELSE ""
NodeIp(node) == IF "ip_address" \in DOMAIN node THEN node.ip_address ELSE ""

\* a node entry with a hostname and an address
HasNameAndIp(node) == NodeHostname(node) # "" /\ NodeIp(node) # ""

\* the hostnames in the hosts lists, and the groups that list a hostname
HostsOf(inv) == UNION {Range(inv[g]) : g \in DOMAIN inv}
GroupsOf(inv, h) == {g \in DOMAIN inv : h \in Range(inv[g])}
Count(h, list) == Cardinality({i \in 1..Len(list) : list[i] = h})

\* the node entries the API has returned so far
ReturnedNodes ==
    UNION {Range(calls[i].ret) : i \in {j \in 1..Len(calls) : calls[j].kind = "nodes"}}

\* the last kept node entry that carries the hostname
LastWalked(h) ==
    walked[CHOOSE i \in 1..Len(walked) :
              /\ NodeHostname(walked[i].node) = h
              /\ \A j \in (i + 1)..Len(walked) : NodeHostname(walked[j].node) # h]

\* the group names as the documentation of the script gives them
RegionGroupName == [r1 |-> "region_r1", r2 |-> "region_r2"]
ClusterGroupName == [c1 |-> "cluster_c1", c2 |-> "cluster_c2"]
RoleGroupName ==
    [database |-> "db", s3 |-> "storage", storage |-> "storage", web |-> "web",
     dns |-> "dns", custom |-> "custom", region_r1 |-> "region_r1"]

\* what a line of static.ini says, read off the line
Says(line) ==
    CASE line = LineControlplane -> [kind |-> "header", group |-> "controlplane"]
      [] line = LineWeb -> [kind |-> "header", group |-> "web"]
      [] line = LineNoName -> [kind |-> "header", group |-> ""]
      [] line = LineComment -> [kind |-> "comment"]
      [] line = LineCp1 ->
            [kind |-> "host", hostname |-> "cp1",
             pairs |-> <<[key |-> "ansible_host", val |-> "10.0.0.5"],
                         [key |-> "env", val |-> "prod"]>>]
      [] line = LineCp1Dev ->
            [kind |-> "host", hostname |-> "cp1",
             pairs |-> <<[key |-> "env", val |-> "dev"],
                         [key |-> "opt", val |-> "a=b"]>>]
      [] line = LineH1 ->
            [kind |-> "host", hostname |-> "h1",
             pairs |-> <<[key |-> "ansible_host", val |-> "10.9.9.9"]>>]

\* the group whose header is the last one above line i; "" when there is none
GroupAbove(lines, i) ==
    LET H == {j \in 1..(i - 1) : Says(lines[j]).kind = "header"}
    IN  IF H = {} THEN ""
        ELSE Says(lines[CHOOSE j \in H : \A k \in H : k <= j]).group

\* line i lists hostname h under a group
Lists(lines, i, h) ==
    /\ Says(lines[i]).kind = "host"
    /\ Says(lines[i]).hostname = h
    /\ GroupAbove(lines, i) # ""

\* the (group, hostname) pairs of static.ini and its hostnames
Listed(file) ==
    {<<GroupAbove(file.lines, i), Says(file.lines[i]).hostname>> :
        i \in {j \in 1..Len(file.lines) :
                /\ Says(file.lines[j]).kind = "host"
                /\ GroupAbove(file.lines, j) # ""}}
StaticHosts(file) == {p[2] : p \in Listed(file)}

\* the key=value pairs static.ini gives for h, in file order
PairsFor(file, h) ==
    Concat([i \in 1..Len(file.lines) |->
                IF Lists(file.lines, i, h) THEN Says(file.lines[i]).pairs ELSE <<>>])

\* the variables a sequence of pairs gives: the last value of each key
VarsOf(pairs) ==
    [k \in {pairs[j].key : j \in 1..Len(pairs)} |->
        pairs[CHOOSE j \in 1..Len(pairs) :
                /\ pairs[j].key = k
                /\ \A l \in (j + 1)..Len(pairs) : pairs[l].key # k].val]

-----------------------------------------------------------------------------
(* Claims about build_inventory and main *)

\* C3: the merge of static.ini leaves every hostname that came from the API
\* as the walk left it: its hostvars entry stays the API-derived one (the
\* address and place of the last node entry with that hostname) and it is
\* added to no hosts list; a hostname with hostvars that did not come from the
\* API has exactly the variables static.ini gives it.
C3_ApiTakesPrecedence ==
    [][pc = "static" =>
        /\ \A h \in api_hostnames :
            /\ h \in DOMAIN hostvars /\ h \in DOMAIN hostvars'
            /\ hostvars'[h] = hostvars[h]
            /\ hostvars'[h].ansible_host = NodeIp(LastWalked(h).node)
            /\ hostvars'[h].region_id = LastWalked(h).region
            /\ hostvars'[h].cluster_id = LastWalked(h).cluster
            /\ \A g \in DOMAIN inventory' :
                Count(h, inventory'[g]) =
                    IF g \in DOMAIN inventory THEN Count(h, inventory[g]) ELSE 0
        /\ \A h \in DOMAIN hostvars' \ api_hostnames :
            hostvars'[h] = VarsOf(PairsFor(static_file', h))]_vars

\* h1 came from the API and static.ini lists it, with variables, under a group
C3_Witness ==
    /\ pc = "exit"
    /\ "h1" \in api_hostnames
    /\ "h1" \in StaticHosts(static_file)
    /\ "cp1" \in DOMAIN hostvars

\* C4: after build_inventory no hosts list of the document holds a hostname
\* twice.
C4_NoDuplicateHosts ==
    pc = "exit" =>
        \A g \in DOMAIN inventory : \A h \in Range(inventory[g]) :
            Count(h, inventory[g]) = 1

\* C5: a hostname is in a hosts list, in hostvars or among the API-sourced
\* hostnames only if the API returned a node entry with that hostname and an
\* address, or (after the merge) static.ini lists it; the empty hostname is
\* nowhere; every API-sourced hostname has hostvars with a non-empty
\* ansible_host.
C5_DiscardedNodesAbsent ==
    /\ \A h \in HostsOf(inventory) \cup DOMAIN hostvars \cup api_hostnames :
        /\ h # ""
        /\ \/ \E n \in ReturnedNodes : HasNameAndIp(n) /\ NodeHostname(n) = h
           \/ pc = "exit" /\ h \notin api_hostnames /\ h \in StaticHosts(static_file)
    /\ \A h \in api_hostnames :
        /\ \E n \in ReturnedNodes : HasNameAndIp(n) /\ NodeHostname(n) = h
        /\ h \in DOMAIN hostvars
        /\ hostvars[h].ansible_host # ""

\* the API returned the node without hostname and the node without address,
\* static.ini does not exist, and the build is over
C5_Witness ==
    /\ pc = "exit"
    /\ NodeNoName \in ReturnedNodes
    /\ NodeNoIp \in ReturnedNodes
    /\ ~static_file.exists

\* C6: after the build a hostname that static.ini lists and that is not
\* API-sourced is in exactly the groups static.ini lists it under, and its
\* hostvars are exactly the key=value pairs static.ini gives it (no entry when
\* it gives none); when the API returned no region the groups of the document
\* are the groups static.ini lists a host under and the hostvars those of the
\* static hosts, and that document is what is printed.
C6_StaticOnlyHosts ==
    pc = "exit" =>
        /\ \A h \in StaticHosts(static_file) \ api_hostnames :
            /\ GroupsOf(inventory, h) =
                    {p[1] : p \in {q \in Listed(static_file) : q[2] = h}}
            /\ IF PairsFor(static_file, h) = <<>> THEN h \notin DOMAIN hostvars
               ELSE /\ h \in DOMAIN hostvars
                    /\ hostvars[h] = VarsOf(PairsFor(static_file, h))
        /\ calls[1].ret = <<>> =>
            /\ DOMAIN inventory = {p[1] : p \in Listed(static_file)}
            /\ \A g \in DOMAIN inventory :
                Range(inventory[g]) =
                    {p[2] : p \in {q \in Listed(static_file) : q[1] = g}}
            /\ DOMAIN hostvars =
                    {h \in StaticHosts(static_file) : PairsFor(static_file, h) # <<>>}
            /\ output = Printed(Document(inventory, hostvars))

\* the API returned no region; static.ini lists cp1 under two groups and gives
\* it env twice
C6_Witness ==
    /\ pc = "exit"
    /\ calls[1].ret = <<>>
    /\ Cardinality(GroupsOf(inventory, "cp1")) = 2
    /\ "cp1" \in DOMAIN hostvars
    /\ hostvars["cp1"] = [ansible_host |-> "10.0.0.5", env |-> "dev", opt |-> "a=b"]

\* C7 as claimed: in the built document every kept node entry has its
\* hostname in the group of its region, in the group of its cluster and in the
\* group of each of its roles, and the hostvars of the hostname carry the
\* address of the entry.
C7_EveryNodeAddress ==
    pc = "exit" => \A i \in 1..Len(walked) :
        LET w == walked[i]
            h == NodeHostname(w.node)
        IN  /\ h \in Range(inventory[RegionGroupName[w.region]])
            /\ h \in Range(inventory[ClusterGroupName[w.cluster]])
            /\ \A r \in Range(Get(w.node, "roles", <<>>)) :
                    h \in Range(inventory[RoleGroupName[r]])
            /\ hostvars[h].ansible_host = NodeIp(w.node)

\* C7 as amended: once a node entry is kept, and so in the built document, its
\* hostname is in the three kinds of group as claimed, and the hostvars of the
\* hostname carry the address of the last kept node entry with that hostname.
C7_NodeGroupsLastAddress ==
    \A i \in 1..Len(walked) :
        LET w == walked[i]
            h == NodeHostname(w.node)
        IN  /\ RegionGroupName[w.region] \in DOMAIN inventory
            /\ h \in Range(inventory[RegionGroupName[w.region]])
            /\ ClusterGroupName[w.cluster] \in DOMAIN inventory
            /\ h \in Range(inventory[ClusterGroupName[w.cluster]])
            /\ \A r \in Range(Get(w.node, "roles", <<>>)) :
                /\ RoleGroupName[r] \in DOMAIN inventory
                /\ h \in Range(inventory[RoleGroupName[r]])
            /\ hostvars[h].ansible_host = NodeIp(LastWalked(h).node)

\* web1 under c1 under r1, and h1 with the roles database, s3 and storage
C7_Witness ==
    /\ pc = "exit"
    /\ \E i \in 1..Len(walked) :
        walked[i] = [region |-> "r1", cluster |-> "c1", node |-> NodeWeb]
    /\ \E i \in 1..Len(walked) : walked[i].node = NodeDb
    /\ inventory["web"] = <<"web1">>
    /\ hostvars["web1"].ansible_host = "10.0.0.1"

\* C8 as claimed: with --host among the arguments main prints {} and does not
\* build the inventory.
C8_HostAlwaysEmpty ==
    (pc = "exit" /\ "--host" \in Range(argv)) =>
        output = Printed(<<>>) /\ calls = <<>>

\* C8 as amended: with --host and without --list among the arguments main
\* prints {} and calls nothing of build_inventory; in every other case, with
\* --list (--host or not) or with neither flag, it prints the built document.
C8_HostWithoutList ==
    pc = "exit" =>
        IF "--host" \in Range(argv) /\ "--list" \notin Range(argv)
        THEN /\ output = Printed(<<>>)
             /\ calls = <<>> /\ inventory = <<>> /\ hostvars = <<>>
        ELSE /\ calls # <<>>
             /\ output.printed
             /\ DOMAIN output.doc = {"_meta"} \cup DOMAIN inventory
             /\ output.doc["_meta"] = [hostvars |-> hostvars]
             /\ \A g \in DOMAIN inventory : output.doc[g] = [hosts |-> inventory[g]]

\* --host h1 alone: {} was printed
C8_Witness ==
    /\ pc = "exit"
    /\ argv = <<"--host", "h1">>
    /\ output.printed

IsClustersCall(c) == c.kind = "clusters"
IsNodesCall(c) == c.kind = "nodes"

\* C9: a call that failed gave no children; whatever failed, the walk asked
\* for the clusters of every region the regions call returned and for the
\* nodes of every cluster a clusters call returned, in order; every node entry
\* with hostname and address that a nodes call returned is in hostvars and in
\* the group of its cluster; the static hosts are merged and the document is
\* printed; and the build never stops before that.
C9_FailedFetchIsEmpty ==
    /\ pc # "exit" => ENABLED Next
    /\ \A i \in 1..Len(calls) : calls[i].err => calls[i].ret = <<>>
    /\ pc = "exit" =>
        LET regionsRet == calls[1].ret
            clustersCalls == SelectSeq(calls, IsClustersCall)
            nodesCalls == SelectSeq(calls, IsNodesCall)
            clustersRet == Concat([i \in 1..Len(clustersCalls) |-> clustersCalls[i].ret])
        IN  /\ calls[1].kind = "regions"
            /\ Len(clustersCalls) = Len(regionsRet)
            /\ \A i \in 1..Len(regionsRet) :
                clustersCalls[i].path = <<"/regions/", regionsRet[i].id, "/clusters">>
            /\ Len(nodesCalls) = Len(clustersRet)
            /\ \A i \in 1..Len(clustersRet) :
                /\ nodesCalls[i].path = <<"/clusters/", clustersRet[i].id, "/nodes">>
                /\ \A n \in Range(nodesCalls[i].ret) :
                    HasNameAndIp(n) =>
                        /\ NodeHostname(n) \in DOMAIN hostvars
                        /\ NodeHostname(n)
                            \in Range(inventory[ClusterGroupName[clustersRet[i].id]])
            /\ \A p \in Listed(static_file) :
                p[2] \notin api_hostnames => p[2] \in Range(inventory[p[1]])
            /\ output = Printed(Document(inventory, hostvars))

\* the clusters of the first region could not be fetched; the second region
\* gave a cluster with web1, which is in the document beside the static cp1
C9_Witness ==
    /\ pc = "exit"
    /\ Len(calls) = 4
    /\ calls[2].kind = "clusters" /\ calls[2].err
    /\ calls[4].kind = "nodes" /\ ~calls[4].err
    /\ "web1" \in DOMAIN hostvars
    /\ "cp1" \in DOMAIN hostvars

====
